---- MODULE Spec2Model ----
(***************************************************************************)
(* ChainSonar (src/sonar_scanner.py): a scanner that polls a block        *)
(* explorer for a list of watched addresses and raises an alert for every *)
(* incoming transfer that meets a threshold.                               *)
(*                                                                         *)
(* Two specifications are given over the same variables.                  *)
(*   Spec     the script from its entry point (lines 137-148): the module *)
(*            constant ETHERSCAN_API_KEY, whales.txt and the two flags    *)
(*            are the inputs; the constructor runs and main reacts to     *)
(*            what it raises.                                              *)
(*   SpecRun  the method ChainSonar.run (lines 84-135) on a constructed   *)
(*            object, together with the explorer it polls.  Under Spec    *)
(*            no input reaches run(): see InitRun for the object states   *)
(*            it is started from.                                          *)
(* Strings whose characters matter to the code (addresses, lines of       *)
(* whales.txt) are sequences of one-character strings, so that lower(),   *)
(* strip(), split() and slicing are computed and not assumed.             *)
(***************************************************************************)
EXTENDS Integers, Sequences, FiniteSets, TLC

VARIABLES
    pc,               \* position of the single thread of control
    env_key,          \* ETHERSCAN_API_KEY as os.getenv returned it (line 14)
    file,             \* whales.txt: [exists, lines]
    eth_threshold,    \* self.eth_threshold  (decimal [m, e] = m * 10^e)
    stable_threshold, \* self.stable_threshold
    targets,          \* self.targets: the dict, as its items in insertion order
    last_seen_block,  \* self.last_seen_block: [defined, map]
    raised,           \* the exception in flight or that ended the process
    exit_status,      \* the process's exit status once pc = "exited", else None
    stderr,           \* the kinds of message printed to sys.stderr
    log,              \* what self.log printed, alert lines excepted
    chain,            \* the explorer's transactions, oldest first
    ti,               \* index in targets of the target of the for loop (line 91)
    txs,              \* the list fetch_transactions returned (line 92)
    ri,               \* index in txs of the record of the inner loop (line 99)
    start_block,      \* the startblock parameter of the last fetch (line 62)
    cycle,            \* number of completed passes of the while loop
    alerts,           \* the alerts logged (lines 122-125)
    realerts,         \* the alerts logged more than once
    notified          \* the alerts passed to send_notification (line 129)

vars == <<pc, env_key, file, eth_threshold, stable_threshold, targets,
          last_seen_block, raised, exit_status, stderr, log, chain, ti, txs,
          ri, start_block, cycle, alerts, realerts, notified>>

cfgVars == <<env_key, file, eth_threshold, stable_threshold>>
runVars == <<chain, ti, txs, ri, start_block, cycle, alerts, realerts, notified>>

(***************************************************************************)
(* Bounds of the model.                                                    *)
(***************************************************************************)
MaxLines == 2    \* lines of whales.txt
MaxBlocks == 2   \* blocks the explorer's chain grows to
MaxCycles == 2   \* passes of the while loop that are followed

(***************************************************************************)
(* Python values.                                                          *)
(***************************************************************************)
\* None where the other values are block numbers or exit statuses (>= 0).
None == -1

Min(a, b) == IF a <= b THEN a ELSE b
Max(a, b) == IF a >= b THEN a ELSE b

RECURSIVE Pow10(_)
Pow10(n) == IF n <= 0 THEN 1 ELSE 10 * Pow10(n - 1)

\* A decimal number m * 10^e.  int(tx['value']) and the float flags are
\* held in this form: 10^18 does not fit TLC's integers.
Dec(m, e) == [m |-> m, e |-> e]

\* x >= y on decimals (line 121), by bringing both to the smaller exponent.
DecGE(x, y) ==
    LET k == Min(x.e, y.e)
    IN  x.m * Pow10(x.e - k) >= y.m * Pow10(y.e - k)

\* int(v) / 10**decimals (lines 110 and 117).
Scale(v, decimals) == Dec(v.m, v.e - decimals)

(***************************************************************************)
(* str methods on sequences of characters.                                 *)
(***************************************************************************)
LowerChar(c) ==
    CASE c = "A" -> "a" [] c = "B" -> "b" [] c = "C" -> "c"
      [] c = "D" -> "d" [] c = "E" -> "e" [] c = "F" -> "f"
      [] c = "W" -> "w" [] c = "X" -> "x"
      [] OTHER -> c

\* str.lower()
Lower(s) == [i \in 1..Len(s) |-> LowerChar(s[i])]

IsSpace(c) == c \in {" ", "\n", "\t"}

\* str.strip()
RECURSIVE Strip(_)
Strip(s) ==
    IF s = <<>> THEN s
    ELSE IF IsSpace(s[1]) THEN Strip(Tail(s))
    ELSE IF IsSpace(s[Len(s)]) THEN Strip(SubSeq(s, 1, Len(s) - 1))
    ELSE s

\* str.startswith(c) for a one-character prefix
StartsWith(s, c) == Len(s) >= 1 /\ s[1] = c

\* str.split(sep): the pieces between the separators, at least one piece
RECURSIVE Split(_, _)
Split(s, sep) ==
    IF \A i \in 1..Len(s) : s[i] # sep THEN <<s>>
    ELSE LET k == CHOOSE i \in 1..Len(s) :
                      s[i] = sep /\ \A j \in 1..(i - 1) : s[j] # sep
         IN  <<SubSeq(s, 1, k - 1)>> \o Split(SubSeq(s, k + 1, Len(s)), sep)

\* s[:n] and s[-n:]
Prefix(s, n) == SubSeq(s, 1, Min(n, Len(s)))
Suffix(s, n) == SubSeq(s, Max(1, Len(s) - n + 1), Len(s))

\* address[:6] + '...' + address[-4:] (lines 44 and 123)
Truncated(address) == Prefix(address, 6) \o <<".", ".", ".">> \o Suffix(address, 4)

(***************************************************************************)
(* The registry: an insertion-ordered dict address -> {'name': name},     *)
(* held as the sequence of its items.                                      *)
(***************************************************************************)
Keys(d) == {d[i].address : i \in 1..Len(d)}

\* d[address] = {'name': name}: a new key is appended, an old key keeps its
\* place and takes the new value.
DictSet(d, address, name) ==
    IF address \in Keys(d)
    THEN [i \in 1..Len(d) |->
             IF d[i].address = address
             THEN [address |-> address, name |-> name] ELSE d[i]]
    ELSE Append(d, [address |-> address, name |-> name])

\* The watermark dict: a function from addresses to None or a block number.
EmptyMap == [a \in {} |-> None]
MapSet(m, a, v) == [x \in (DOMAIN m) \cup {a} |-> IF x = a THEN v ELSE m[x]]

\* self.last_seen_block before any assignment to it: reading it raises
\* AttributeError.
NoAttr == [defined |-> FALSE, map |-> EmptyMap]
Attr(m) == [defined |-> TRUE, map |-> m]

(***************************************************************************)
(* Inputs.                                                                 *)
(***************************************************************************)
\* os.getenv('ETHERSCAN_API_KEY'): None, the empty string or a key.
NoEnv == "<None>"
EnvKeys == {NoEnv, "", "KEY"}

\* Lines of whales.txt.
LBlank == <<" ", "\n">>
LComment == <<"#", " ", "w">>
LW1 == <<"0", "x", "A", "1", ",", "W", "1", "\n">>
LW1bare == <<"0", "x", "a", "1", "\n">>
LW2 == <<"0", "x", "b", "2", ",", " ", "W", "2">>
FileLines == {LBlank, LComment, LW1, LW1bare, LW2}

RECURSIVE SeqsUpTo(_, _)
SeqsUpTo(S, n) ==
    IF n = 0 THEN {<<>>}
    ELSE LET shorter == SeqsUpTo(S, n - 1)
         IN  shorter \cup {Append(q, x) : q \in shorter, x \in S}

NoFile == [exists |-> FALSE, lines |-> <<>>]
Files == {NoFile} \cup {[exists |-> TRUE, lines |-> l] : l \in SeqsUpTo(FileLines, MaxLines)}

\* --eth-threshold and --stable-threshold: 0 or the default (lines 139-140).
EthThresholds == {Dec(0, 0), Dec(10, 0)}
StableThresholds == {Dec(0, 0), Dec(20000, 0)}

(***************************************************************************)
(* ChainSonar.load_targets (lines 34-53).  lsb is self.last_seen_block as *)
(* it is when the method is entered.                                       *)
(***************************************************************************)
\* line 40: the line is skipped
Skipped(line) == Strip(line) = <<>> \/ StartsWith(line, "#")

\* lines 42-43
Parts(line) == LET raw == Split(line, ",") IN [i \in 1..Len(raw) |-> Strip(raw[i])]
LineAddress(line) == Lower(Parts(line)[1])
\* line 44
LineName(line) ==
    IF Len(Parts(line)) > 1 THEN Parts(line)[2] ELSE Truncated(LineAddress(line))

\* The for loop of lines 39-46 from line i on.  Line 46 reads the attribute
\* self.last_seen_block: AttributeError when it has not been assigned.
RECURSIVE LoadLoop(_, _, _, _)
LoadLoop(lines, i, tg, lsb) ==
    IF i > Len(lines) THEN [outcome |-> "done", targets |-> tg, lsb |-> lsb]
    ELSE IF Skipped(lines[i]) THEN LoadLoop(lines, i + 1, tg, lsb)
    ELSE LET address == LineAddress(lines[i])
             tg2 == DictSet(tg, address, LineName(lines[i]))
         IN  IF ~lsb.defined
             THEN [outcome |-> "AttributeError", targets |-> tg2, lsb |-> lsb]
             ELSE LoadLoop(lines, i + 1, tg2, Attr(MapSet(lsb.map, address, None)))

\* Mutation of load_targets: an empty registry is returned, not refused.
load_targets_unchecked(f, lsb) ==
    IF ~f.exists
    THEN [outcome |-> "exit", targets |-> <<>>, lsb |-> lsb]
    ELSE LET r == LoadLoop(f.lines, 1, <<>>, lsb)
         IN  IF r.outcome # "done" THEN r
             ELSE [outcome |-> "return", targets |-> r.targets, lsb |-> r.lsb]

\* outcome: "return" (line 50), "exit" (sys.exit(1), line 53) or the name of
\* the exception that leaves the method.
load_targets(f, lsb) ==
    IF ~f.exists
    THEN [outcome |-> "exit", targets |-> <<>>, lsb |-> lsb]
    ELSE LET r == LoadLoop(f.lines, 1, <<>>, lsb)
         IN  IF r.outcome # "done" THEN r
             ELSE IF r.targets = <<>>
             THEN [outcome |-> "exit", targets |-> <<>>, lsb |-> r.lsb]
             ELSE [outcome |-> "return", targets |-> r.targets, lsb |-> r.lsb]

(***************************************************************************)
(* The script (lines 137-148).                                             *)
(***************************************************************************)
\* line 25: not ETHERSCAN_API_KEY
KeyMissing(k) == k = NoEnv \/ k = ""

\* The exceptions main's except clause names (line 147).
MainCatches == {"ValueError", "EnvironmentError"}

RunIdle ==
    /\ chain = <<>> /\ ti = 0 /\ txs = <<>> /\ ri = 0 /\ start_block = None
    /\ cycle = 0 /\ alerts = {} /\ realerts = {} /\ notified = {}

Init ==
    /\ pc = "main"
    /\ env_key \in EnvKeys
    /\ file \in Files
    /\ eth_threshold \in EthThresholds
    /\ stable_threshold \in StableThresholds
    /\ targets = <<>>
    /\ last_seen_block = NoAttr
    /\ raised = "none"
    /\ exit_status = None
    /\ stderr = {}
    /\ log = <<>>
    /\ RunIdle

\* ChainSonar.__init__ (lines 24-32), called at line 145.
Construct ==
    /\ pc = "main"
    /\ IF KeyMissing(env_key)
       THEN /\ pc' = "raised"
            /\ raised' = "EnvironmentError"
            /\ UNCHANGED <<targets, last_seen_block, exit_status, stderr, log>>
       ELSE LET r == load_targets(file, last_seen_block)
            IN  CASE r.outcome = "return" ->
                       /\ pc' = "constructed"
                       /\ targets' = r.targets
                       /\ last_seen_block' = Attr(EmptyMap)
                       /\ log' = Append(log, "tracking")
                       /\ UNCHANGED <<raised, exit_status, stderr>>
                  [] r.outcome = "exit" ->
                       /\ pc' = "exited"
                       /\ exit_status' = 1
                       /\ stderr' = stderr \cup {"whales.txt not found or empty"}
                       /\ last_seen_block' = r.lsb
                       /\ UNCHANGED <<targets, raised, log>>
                  [] OTHER ->
                       /\ pc' = "raised"
                       /\ raised' = r.outcome
                       /\ last_seen_block' = r.lsb
                       /\ UNCHANGED <<targets, exit_status, stderr, log>>
    /\ UNCHANGED cfgVars
    /\ UNCHANGED runVars

\* except (ValueError, EnvironmentError) (lines 147-148): the message is
\* printed and the script ends, which is exit status 0.
MainExcept ==
    /\ pc = "raised"
    /\ raised \in MainCatches
    /\ pc' = "exited"
    /\ exit_status' = 0
    /\ stderr' = stderr \cup {"init error"}
    /\ UNCHANGED <<targets, last_seen_block, raised, log>>
    /\ UNCHANGED cfgVars
    /\ UNCHANGED runVars

\* Any other exception leaves the script: traceback, exit status 1.
Uncaught ==
    /\ pc = "raised"
    /\ raised \notin MainCatches
    /\ pc' = "exited"
    /\ exit_status' = 1
    /\ stderr' = stderr \cup {"traceback"}
    /\ UNCHANGED <<targets, last_seen_block, raised, log>>
    /\ UNCHANGED cfgVars
    /\ UNCHANGED runVars

Next == Construct \/ MainExcept \/ Uncaught

Spec == Init /\ [][Next]_vars

(***************************************************************************)
(* The explorer.  A block holds one transaction; a record's blockNumber   *)
(* and hash are its position in the chain.                                  *)
(***************************************************************************)
AddrW1 == <<"0", "x", "a", "1">>
AddrW1Mixed == <<"0", "x", "A", "1">>
AddrW2 == <<"0", "x", "b", "2">>
AddrOther == <<"0", "x", "c", "3">>

\* The keys of WATCHED_TOKENS (lines 18-20), cut to their first six
\* characters; the letter case is the source's.
KeyWETH == <<"0", "x", "C", "0", "2", "a">>
KeyUSDC == <<"0", "x", "A", "0", "b", "8">>
KeyUSDT == <<"0", "x", "d", "A", "C", "1">>
AddrUnwatched == <<"0", "x", "d", "e", "a", "d">>

WATCHED_TOKENS ==
    << [address |-> KeyWETH, symbol |-> "WETH", decimals |-> 18],
       [address |-> KeyUSDC, symbol |-> "USDC", decimals |-> 6],
       [address |-> KeyUSDT, symbol |-> "USDT", decimals |-> 6] >>

\* What a block can hold.  token: the record has a tokenSymbol field.
\* wellformed: int(value) succeeds.
Shape(to, from, value, token, contract, wellformed) ==
    [to |-> to, from |-> from, value |-> value, token |-> token,
     contractAddress |-> contract, wellformed |-> wellformed]

TxShapes ==
    { Shape(AddrW1Mixed, AddrOther, Dec(10, 18), FALSE, <<>>, TRUE),
      Shape(AddrW1, AddrOther, Dec(5, 18), FALSE, <<>>, TRUE),
      Shape(AddrW2, AddrW1, Dec(50, 18), FALSE, <<>>, TRUE),
      Shape(AddrW1, AddrOther, Dec(0, 0), FALSE, <<>>, FALSE),
      Shape(AddrW1, AddrOther, Dec(25, 6), TRUE, Lower(KeyUSDC), TRUE),
      Shape(AddrW1, AddrOther, Dec(9, 30), TRUE, AddrUnwatched, TRUE) }

Record(shape, n) ==
    [hash |-> n, blockNumber |-> n, to |-> shape.to, from |-> shape.from,
     value |-> shape.value, token |-> shape.token,
     contractAddress |-> shape.contractAddress, wellformed |-> shape.wellformed]

\* A new block.
Mine ==
    /\ pc = "fetch"
    /\ Len(chain) < MaxBlocks
    /\ \E shape \in TxShapes : chain' = Append(chain, Record(shape, Len(chain) + 1))
    /\ UNCHANGED <<pc, targets, last_seen_block, raised, exit_status, stderr, log>>
    /\ UNCHANGED <<ti, txs, ri, start_block, cycle, alerts, realerts, notified>>
    /\ UNCHANGED cfgVars

\* The explorer lists a record under both of its addresses.
Involves(r, address) == Lower(r.to) = address \/ Lower(r.from) = address

\* The result of one account request (lines 58-66): the records of the
\* address of the asked kind (txlist: token = FALSE, tokentx: token = TRUE)
\* in blocks startblock..endblock, 'sort': 'desc'.  A startblock of None is
\* not sent and the listing starts at the first block.
RECURSIVE ListFrom(_, _, _, _)
ListFrom(i, address, startblock, token) ==
    IF i = 0 THEN <<>>
    ELSE IF /\ chain[i].token = token
            /\ Involves(chain[i], address)
            /\ (startblock = None \/ chain[i].blockNumber >= startblock)
         THEN <<chain[i]>> \o ListFrom(i - 1, address, startblock, token)
         ELSE ListFrom(i - 1, address, startblock, token)

Listing(address, startblock, token) == ListFrom(Len(chain), address, startblock, token)

(***************************************************************************)
(* ChainSonar.fetch_transactions (lines 55-72).                            *)
(***************************************************************************)
\* How the two requests can end.  "ok": both give their listing.  "*_null":
\* the response has no result or a null one.  "network": session.get raises
\* (requests' exceptions are IOError, that is EnvironmentError).  "nonjson":
\* .json() raises a ValueError.  "payload": result is the explorer's error
\* string, and line 72 or line 97 raises TypeError.
FetchOutcomes == {"ok", "eth_null", "token_null", "both_null",
                  "network", "nonjson", "payload"}

FetchRaises(outcome) ==
    CASE outcome = "network" -> "EnvironmentError"
      [] outcome = "nonjson" -> "ValueError"
      [] outcome = "payload" -> "TypeError"
      [] OTHER -> "none"

\* Mutation of StartBlock: the startblock parameter is never sent.
StartBlockUnset(address) == None

\* line 62: the startblock parameter
StartBlock(address) == last_seen_block.map[address]

\* line 72: (eth_txs or []) + (token_txs or [])
fetch_transactions(address, outcome) ==
    LET eth_txs == IF outcome \in {"eth_null", "both_null"} THEN <<>>
                   ELSE Listing(address, StartBlock(address), FALSE)
        token_txs == IF outcome \in {"token_null", "both_null"} THEN <<>>
                     ELSE Listing(address, StartBlock(address), TRUE)
    IN  eth_txs \o token_txs

(***************************************************************************)
(* ChainSonar.run (lines 84-135).                                          *)
(***************************************************************************)
Address == targets[ti].address
Data == targets[ti]

\* The for loop of line 91 moves to its next item, or ends and the while
\* loop reaches line 132.
NextTarget ==
    IF ti < Len(targets)
    THEN ti' = ti + 1 /\ pc' = "fetch"
    ELSE ti' = ti /\ pc' = "sleep_long"

\* lines 86-87 and the first entry of the loops
RunStart ==
    /\ pc = "constructed"
    /\ log' = Append(log, "activated")
    /\ pc' = "fetch"
    /\ ti' = 1
    /\ cycle' = 1
    /\ UNCHANGED <<targets, last_seen_block, raised, exit_status, stderr>>
    /\ UNCHANGED <<chain, txs, ri, start_block, alerts, realerts, notified>>
    /\ UNCHANGED cfgVars

\* line 97: the watermark written for a non-empty result
NewWatermark(result) == result[1].blockNumber

\* Mutation of UpdatedWatermarks: an empty result resets the watermark.
UpdatedWatermarksReset(map, address, result) ==
    IF result = <<>> THEN MapSet(map, address, None)
    ELSE MapSet(map, address, NewWatermark(result))

\* Mutation of UpdatedWatermarks: the watermark is kept per scanner, not per
\* target.
UpdatedWatermarksShared(map, address, result) ==
    IF result = <<>> THEN map
    ELSE [a \in DOMAIN map |-> NewWatermark(result)]

\* lines 93-97: the watermark dict after a fetch for address; an empty result
\* leaves it as it is.
UpdatedWatermarks(map, address, result) ==
    IF result = <<>> THEN map
    ELSE MapSet(map, address, NewWatermark(result))

\* lines 92-97: the fetch for the current target
Fetch ==
    /\ pc = "fetch"
    /\ IF Address \notin DOMAIN last_seen_block.map
       THEN \* line 62: KeyError
            /\ pc' = "raised"
            /\ raised' = "KeyError"
            /\ UNCHANGED <<last_seen_block, ti, txs, ri, start_block>>
       ELSE \E outcome \in FetchOutcomes :
            /\ start_block' = StartBlock(Address)
            /\ IF FetchRaises(outcome) # "none"
               THEN /\ pc' = "raised"
                    /\ raised' = FetchRaises(outcome)
                    /\ UNCHANGED <<last_seen_block, ti, txs, ri>>
               ELSE LET result == fetch_transactions(Address, outcome)
                    IN  /\ txs' = result
                        /\ raised' = raised
                        /\ last_seen_block' =
                               Attr(UpdatedWatermarks(last_seen_block.map, Address, result))
                        /\ IF result = <<>>
                           THEN \* lines 93-94: continue
                                /\ NextTarget
                                /\ ri' = 0
                           ELSE /\ pc' = "process"
                                /\ ri' = 1
                                /\ ti' = ti
    /\ UNCHANGED <<targets, exit_status, stderr, log>>
    /\ UNCHANGED <<chain, cycle, alerts, realerts, notified>>
    /\ UNCHANGED cfgVars

\* Mutation of Incoming: the sender is compared, not the recipient.
IncomingFrom(tx, address) == Lower(tx.from) = address

\* line 101: the record is an incoming one
Incoming(tx, address) == Lower(tx.to) = address

\* line 115: token_addr in WATCHED_TOKENS
InWatched(token_addr) == \E i \in 1..Len(WATCHED_TOKENS) : WATCHED_TOKENS[i].address = token_addr
\* line 116: WATCHED_TOKENS[token_addr]
TokenInfo(token_addr) ==
    WATCHED_TOKENS[CHOOSE i \in 1..Len(WATCHED_TOKENS) : WATCHED_TOKENS[i].address = token_addr]

\* line 119
ThresholdOf(symbol) == IF symbol = "WETH" THEN eth_threshold ELSE stable_threshold

\* lines 104-119: amount, symbol and threshold of an incoming record, or the
\* exception int() raises.
Classify(tx) ==
    IF ~tx.token
    THEN IF ~tx.wellformed
         THEN [raises |-> "ValueError", amount |-> Dec(0, 0), symbol |-> "",
               threshold |-> Dec(0, 0)]
         ELSE [raises |-> "none", amount |-> Scale(tx.value, 18), symbol |-> "ETH",
               threshold |-> eth_threshold]
    ELSE LET token_addr == Lower(tx.contractAddress)
         IN  IF InWatched(token_addr)
             THEN IF ~tx.wellformed
                  THEN [raises |-> "ValueError", amount |-> Dec(0, 0), symbol |-> "",
                        threshold |-> Dec(0, 0)]
                  ELSE [raises |-> "none",
                        amount |-> Scale(tx.value, TokenInfo(token_addr).decimals),
                        symbol |-> TokenInfo(token_addr).symbol,
                        threshold |-> ThresholdOf(TokenInfo(token_addr).symbol)]
             ELSE [raises |-> "none", amount |-> Dec(0, 0), symbol |-> "",
                   threshold |-> Dec(0, 0)]

\* Mutation of Qualifies: the comparison is strict.
QualifiesStrict(amount, threshold) == ~DecGE(threshold, amount)

\* line 121
Qualifies(amount, threshold) == DecGE(amount, threshold)

\* Mutation of send_notification: no try/except around notify.
send_notification_unguarded(delivered) ==
    [raises |-> IF delivered THEN "none" ELSE "Exception", warning |-> {}]

\* ChainSonar.send_notification (lines 74-79): whatever notify raises is
\* caught and reported on stderr.
send_notification(delivered) ==
    [raises |-> "none",
     warning |-> IF delivered THEN {} ELSE {"notification failed"}]

\* lines 122-128: what the alert shows
AlertEvent(tx, c) ==
    [hash |-> tx.hash, address |-> Address, name |-> Data.name,
     amount |-> c.amount, symbol |-> c.symbol]

\* The for loop of line 99 moves to its next record, or ends and line 131
\* is reached.
NextRecord ==
    IF ri < Len(txs)
    THEN ri' = ri + 1 /\ pc' = "process"
    ELSE ri' = ri /\ pc' = "sleep_short"

\* lines 99-129: one record of the result
Process ==
    /\ pc = "process"
    /\ LET tx == txs[ri]
       IN  IF ~Incoming(tx, Address)
           THEN NextRecord /\ UNCHANGED <<raised, alerts, realerts, notified, stderr>>
           ELSE LET c == Classify(tx)
                IN  IF c.raises # "none"
                    THEN /\ pc' = "raised"
                         /\ raised' = c.raises
                         /\ UNCHANGED <<ri, alerts, realerts, notified, stderr>>
                    ELSE IF Qualifies(c.amount, c.threshold)
                    THEN /\ alerts' = alerts \cup {AlertEvent(tx, c)}
                         /\ realerts' = realerts \cup ({AlertEvent(tx, c)} \cap alerts)
                         /\ notified' = notified \cup {AlertEvent(tx, c)}
                         /\ \E delivered \in BOOLEAN :
                               LET n == send_notification(delivered)
                               IN  /\ stderr' = stderr \cup n.warning
                                   /\ IF n.raises # "none"
                                      THEN /\ pc' = "raised"
                                           /\ raised' = n.raises
                                           /\ ri' = ri
                                      ELSE NextRecord /\ raised' = raised
                    ELSE NextRecord /\ UNCHANGED <<raised, alerts, realerts, notified, stderr>>
    /\ UNCHANGED <<targets, last_seen_block, exit_status, log>>
    /\ UNCHANGED <<chain, ti, txs, start_block, cycle>>
    /\ UNCHANGED cfgVars

\* line 131: time.sleep(2).  txs and tx are not read again before line 92
\* rebinds them; they are dropped here.
SleepShort ==
    /\ pc = "sleep_short"
    /\ NextTarget
    /\ txs' = <<>>
    /\ ri' = 0
    /\ UNCHANGED <<targets, last_seen_block, raised, exit_status, stderr, log>>
    /\ UNCHANGED <<chain, start_block, cycle, alerts, realerts, notified>>
    /\ UNCHANGED cfgVars

\* line 132: time.sleep(15), and the next pass of the while loop
SleepLong ==
    /\ pc = "sleep_long"
    /\ cycle < MaxCycles
    /\ cycle' = cycle + 1
    /\ ti' = 1
    /\ pc' = "fetch"
    /\ UNCHANGED <<targets, last_seen_block, raised, exit_status, stderr, log>>
    /\ UNCHANGED <<chain, txs, ri, start_block, alerts, realerts, notified>>
    /\ UNCHANGED cfgVars

InLoop == pc \in {"fetch", "process", "sleep_short", "sleep_long"}

\* Mutation of Interrupt: no handler, the KeyboardInterrupt leaves the script.
InterruptUnhandled ==
    /\ InLoop
    /\ pc' = "exited"
    /\ exit_status' = 1
    /\ stderr' = stderr \cup {"traceback"}
    /\ UNCHANGED <<targets, last_seen_block, raised, log>>
    /\ UNCHANGED runVars
    /\ UNCHANGED cfgVars

\* lines 133-135: KeyboardInterrupt anywhere in the try block
Interrupt ==
    /\ InLoop
    /\ log' = Append(log, "deactivated")
    /\ pc' = "exited"
    /\ exit_status' = 0
    /\ UNCHANGED <<targets, last_seen_block, raised, stderr>>
    /\ UNCHANGED runVars
    /\ UNCHANGED cfgVars

(***************************************************************************)
(* run() on a constructed object.  __init__ cannot complete with a        *)
(* target (line 46 runs before line 32 has made the attribute), so the    *)
(* object states are the ones its two assignments describe: the registry  *)
(* load_targets builds, and the watermark dict either as line 46 fills it *)
(* or as line 32 leaves it.                                                *)
(***************************************************************************)
RunFiles ==
    { [exists |-> TRUE, lines |-> <<LW1>>],
      [exists |-> TRUE, lines |-> <<LComment, LW2, LBlank, LW1bare>>] }

\* The flags: both 0, or both at their defaults (lines 139-140).
RunThresholds == {<<Dec(0, 0), Dec(0, 0)>>, <<Dec(10, 0), Dec(20000, 0)>>}

InitRun ==
    /\ pc = "constructed"
    /\ env_key = "KEY"
    /\ file \in RunFiles
    /\ \E th \in RunThresholds : eth_threshold = th[1] /\ stable_threshold = th[2]
    /\ targets = load_targets(file, Attr(EmptyMap)).targets
    /\ last_seen_block \in {load_targets(file, Attr(EmptyMap)).lsb, Attr(EmptyMap)}
    /\ raised = "none"
    /\ exit_status = None
    /\ stderr = {}
    /\ log = <<"tracking">>
    /\ RunIdle

NextRun ==
    \/ RunStart \/ Mine \/ Fetch \/ Process \/ SleepShort \/ SleepLong
    \/ Interrupt \/ MainExcept \/ Uncaught

SpecRun == InitRun /\ [][NextRun]_vars

(***************************************************************************)
(* Properties.                                                             *)
(***************************************************************************)
\* The record an alert is about.
RecordOf(ev) == chain[ev.hash]

\* The records of the current result that the inner loop is done with.
Processed ==
    IF pc = "process" THEN {txs[i] : i \in 1..(ri - 1)}
    ELSE IF pc = "sleep_short" THEN {txs[i] : i \in 1..Len(txs)}
    ELSE {}

\* The allow-list entry a contract address names when letter case is ignored.
WatchedEntries(contract) ==
    {WATCHED_TOKENS[i] : i \in {j \in 1..Len(WATCHED_TOKENS) :
                                   Lower(WATCHED_TOKENS[j].address) = Lower(contract)}}

\* C1: once a target's lastSeenBlock is set, no step of the scanner lowers
\* it (the explorer returns only records at or above the requested
\* startBlock).
C1_WatermarkMonotonic ==
    [][\A a \in DOMAIN last_seen_block.map :
          last_seen_block.map[a] # None =>
              /\ a \in DOMAIN last_seen_block'.map
              /\ last_seen_block'.map[a] >= last_seen_block.map[a]]_vars

\* C1 witness: a fetch issued from a set watermark has advanced it.
C1_Witness ==
    /\ pc = "process"
    /\ start_block # None
    /\ last_seen_block.map[Address] > start_block

\* C2: no alert is logged a second time for the same transaction and target.
C2_NoReAlert == realerts = {}

\* C3: no alert and no notification is about a token record whose contract
\* address is not in the allow-list.
C3_UnwatchedNeverAlerts ==
    \A ev \in alerts \cup notified :
        ~(RecordOf(ev).token /\ WatchedEntries(RecordOf(ev).contractAddress) = {})

\* C4: a failed fetch or a malformed record leaves the scanner in its loop.
C4_FailureIsolated ==
    raised \in {"EnvironmentError", "ValueError", "TypeError"} => InLoop

\* C5: an alert about a token record whose contract address names an
\* allow-list entry, letter case ignored, shows that entry's symbol and
\* rawValue / 10^decimals, and that amount meets the entry's threshold.
C5_WatchedClassified ==
    \A ev \in alerts :
        \A entry \in WatchedEntries(RecordOf(ev).contractAddress) :
            RecordOf(ev).token =>
                /\ ev.symbol = entry.symbol
                /\ ev.amount = Scale(RecordOf(ev).value, entry.decimals)
                /\ DecGE(ev.amount, IF entry.symbol = "WETH" THEN eth_threshold
                                    ELSE stable_threshold)

\* C6: every alert and every notification is about a record whose `to`,
\* lowercased, is the address of the target it is raised for; a record sent
\* elsewhere raises none.
C6_OnlyIncomingAlerts ==
    /\ \A ev \in alerts \cup notified :
          /\ Lower(RecordOf(ev).to) = ev.address
          /\ ev.address \in Keys(targets)
    /\ \A tx \in Processed :
          Lower(tx.to) # Address =>
              ~\E ev \in alerts \cup notified : ev.hash = tx.hash /\ ev.address = Address

\* C6 witness: a record the target sent, of an amount above the threshold,
\* has been processed for that target.
C6_Witness ==
    \E tx \in Processed :
        /\ Lower(tx.from) = Address
        /\ Lower(tx.to) # Address
        /\ ~tx.token
        /\ DecGE(Scale(tx.value, 18), eth_threshold)

C8_MissingKeyExitsNonZero ==
    (KeyMissing(env_key) /\ pc = "exited") => (exit_status # 0 /\ targets = <<>>)

\* whales.txt is missing or holds only blank and #-comment lines.
NoTargetLines(f) ==
    \/ ~f.exists
    \/ \A i \in 1..Len(f.lines) :
          \/ \A j \in 1..Len(f.lines[i]) : IsSpace(f.lines[i][j])
          \/ f.lines[i][1] = "#"

\* C9: with a key, a missing address file or one without targets ends the
\* process with a non-zero status; the object is never constructed and the
\* loop never entered.
C9_EmptyListIsFatal ==
    (~KeyMissing(env_key) /\ NoTargetLines(file)) =>
        /\ pc \in {"main", "exited"}
        /\ pc = "exited" => exit_status = 1
        /\ targets = <<>>
        /\ cycle = 0 /\ start_block = None

\* C9 witness: a file of blank and comment lines only has ended the process.
C9_Witness ==
    /\ ~KeyMissing(env_key)
    /\ file.exists /\ Len(file.lines) > 0 /\ NoTargetLines(file)
    /\ pc = "exited" /\ exit_status = 1

\* C10: with a key and at least one target line construction completes,
\* with an unset watermark entry for exactly the registered addresses.
C10_ConstructionCompletes ==
    (~KeyMissing(env_key) /\ ~NoTargetLines(file) /\ pc # "main") =>
        /\ pc = "constructed"
        /\ last_seen_block.defined
        /\ DOMAIN last_seen_block.map = Keys(targets)
        /\ \A a \in DOMAIN last_seen_block.map : last_seen_block.map[a] = None

\* self.log printed the message.
Logged(msg) == \E i \in 1..Len(log) : log[i] = msg

\* C11: a step that takes the scanner out of its loop without an exception
\* is the interrupt: it logs the deactivation, exits with status 0 and
\* changes nothing else; a terminated scanner takes no further step; at every
\* point of the loop the interrupt can be taken.
C11_GracefulInterrupt ==
    [][/\ (pc \in {"fetch", "process", "sleep_short", "sleep_long"} /\ pc' = "exited") =>
              /\ exit_status' = 0
              /\ Logged("deactivated")'
              /\ UNCHANGED <<last_seen_block, targets, chain, start_block, alerts,
                             realerts, notified, stderr, raised>>
       /\ pc = "exited" => UNCHANGED vars]_vars
    /\ [](pc \in {"fetch", "process", "sleep_short", "sleep_long"} => ENABLED Interrupt)

\* C11 witness: the interrupt came while records were being processed.
C11_Witness ==
    /\ pc = "exited" /\ exit_status = 0 /\ Logged("deactivated")
    /\ txs # <<>> /\ ri < Len(txs)

\* C12: a failed notification is reported on stderr and nothing else: no
\* exception of the notifier is ever in flight, and the step in which the
\* failure is first reported logs its alert, leaves the watermark alone
\* and moves on to the next record, or to the short sleep after the last.
C12_NotificationContained ==
    /\ [](raised # "Exception")
    /\ [][("notification failed" \notin stderr /\ "notification failed" \in stderr') =>
              /\ pc = "process"
              /\ raised' = raised
              /\ \E ev \in alerts' : ev.hash = txs[ri].hash /\ ev.address = Address
              /\ notified' = alerts'
              /\ IF ri < Len(txs) THEN pc' = "process" /\ ri' = ri + 1
                                  ELSE pc' = "sleep_short"
              /\ UNCHANGED <<last_seen_block, targets, chain, ti, txs, cycle,
                             start_block, exit_status, log>>]_vars

\* C12 witness: after a notification failed, a later pass of the loop is
\* processing records.
C12_Witness ==
    /\ "notification failed" \in stderr
    /\ cycle >= 2
    /\ pc = "process"

\* The threshold the claim assigns to a record: the eth threshold for a
\* native or WETH transfer, the stable threshold for any other token.
ClaimedThreshold(r) ==
    IF ~r.token \/ \E entry \in WatchedEntries(r.contractAddress) : entry.symbol = "WETH"
    THEN eth_threshold
    ELSE stable_threshold

\* C13: every alert was decided against its class's threshold, so the
\* amount it shows meets the eth threshold (native, WETH) or the stable
\* threshold (any other token).
C13_ThresholdSelection ==
    \A ev \in alerts : DecGE(ev.amount, ClaimedThreshold(RecordOf(ev)))

\* The lines of whales.txt that are neither blank nor #-comments.
TargetLineIndexes(f) ==
    {i \in 1..Len(f.lines) :
        /\ \E j \in 1..Len(f.lines[i]) : ~IsSpace(f.lines[i][j])
        /\ f.lines[i][1] # "#"}

\* The registry tg holds what the claim says for the file f: one entry per
\* lowercased first field, none twice, with the display name of the last
\* line that names the address.
RegistryOf(f, tg) ==
    /\ Keys(tg) = {LineAddress(f.lines[i]) : i \in TargetLineIndexes(f)}
    /\ \A i, j \in 1..Len(tg) : tg[i].address = tg[j].address => i = j
    /\ \A k \in 1..Len(tg) :
          \E i \in TargetLineIndexes(f) :
              /\ LineAddress(f.lines[i]) = tg[k].address
              /\ LineName(f.lines[i]) = tg[k].name
              /\ \A j \in TargetLineIndexes(f) :
                    LineAddress(f.lines[j]) = tg[k].address => j <= i

\* C14: once loading has run on an address list with target lines, the
\* registry holds one Target per distinct lowercased address, with the
\* display name of the last line naming it.
C14_RegistryLoaded ==
    (~KeyMissing(env_key) /\ file.exists /\ TargetLineIndexes(file) # {} /\ pc # "main") =>
        RegistryOf(file, targets)

\* The highest block number among the records of a non-empty result.
HighestBlock(result) ==
    CHOOSE b \in {result[i].blockNumber : i \in 1..Len(result)} :
        \A i \in 1..Len(result) : result[i].blockNumber <= b

\* C15: while a fetched result is processed, the target's lastSeenBlock is
\* the highest block number among the records of that result.
C15_WatermarkIsHighest ==
    pc = "process" => last_seen_block.map[Address] = HighestBlock(txs)

\* C16: the for loop moves to its next target only out of the short sleep,
\* and the while loop starts its next pass only out of the long sleep.
C16_Pacing ==
    [][/\ (pc # "constructed" /\ ti' = ti + 1) => pc = "sleep_short"
       /\ (pc # "constructed" /\ cycle' = cycle + 1) => pc = "sleep_long"]_vars

\* C17: a fetch that returns no record moves to the next target (to the
\* long sleep after the last) and changes neither a watermark nor the
\* registry, and raises no alert.
C17_EmptyFetchNoChange ==
    [][(pc = "fetch" /\ chain' = chain /\ txs' = <<>> /\ pc' \notin {"raised", "exited"}) =>
          /\ IF ti < Len(targets) THEN pc' = "fetch" /\ ti' = ti + 1
                                  ELSE pc' = "sleep_long" /\ ti' = ti
          /\ UNCHANGED <<last_seen_block, targets, alerts, realerts, notified,
                         stderr, log, cycle>>]_vars

\* C17 witness: in the second pass the first target, of which the explorer
\* holds no record, has been fetched and the loop is at the second target,
\* whose watermark is set.
C17_Witness ==
    /\ pc = "fetch" /\ ti = 2 /\ cycle = 2
    /\ txs = <<>>
    /\ \A k \in 1..Len(chain) : ~Involves(chain[k], targets[1].address)
    /\ last_seen_block.map[targets[1].address] = None
    /\ last_seen_block.map[targets[2].address] # None

\* C18: a scanner that has a watermark entry for each of its targets
\* terminates only through the interrupt.
C18_OnlyInterruptTerminates ==
    (pc = "exited" /\ DOMAIN last_seen_block.map = Keys(targets)) => Logged("deactivated")

\* C19: no step changes the registry; a watermark changes only in the fetch
\* for its own target; and a fetch sends as startblock the value the
\* watermark dict holds for the target fetched.
C19_PerTargetFrame ==
    [][/\ targets' = targets
       /\ \A a \in DOMAIN last_seen_block.map :
             (pc # "fetch" \/ a # targets[ti].address) =>
                 /\ a \in DOMAIN last_seen_block'.map
                 /\ last_seen_block'.map[a] = last_seen_block.map[a]
       /\ (pc = "fetch" /\ chain' = chain /\ pc' # "exited" /\ raised' # "KeyError") =>
             start_block' = last_seen_block.map[targets[ti].address]]_vars

\* C19 witness: the second target's fetch has written its watermark while
\* the first target's watermark is set to another block.
C19_Witness ==
    /\ pc = "process" /\ ti = 2
    /\ last_seen_block.map[targets[1].address] # None
    /\ last_seen_block.map[targets[2].address] # last_seen_block.map[targets[1].address]

====
